---- MODULE Spec2Model ----
\* newid-mount (src/mount.go): one run of DevMounter.Start, the four-stage
\* pipeline BindArgs -> ChangeDevUUID -> MountDevice -> Check, with every
\* external command (ExecCmd) a nondeterministic step of the environment.
\*
\* Go strings are modelled as sequences of one-character strings, so that
\* strings.ToLower, strings.Contains, strings.HasPrefix and the regular
\* expression of QueryDeviceUUID are computed, not assumed.
EXTENDS Integers, Sequences, FiniteSets, TLC

VARIABLES
    args_,      \* DevMounter.args_: [dev, path_]
    fs,         \* DevMounter.fs ("" until bindFS resolves it)
    caller_,    \* DevMounter.caller_ ("" until bindCaller sets it)
    uuid_,      \* DevMounter.uuid_
    pc,         \* position of the run inside Start and its callees
    err,        \* Start's variable err: what the last stage returned
    stages,     \* the stages Start has begun, in order
    rets,       \* what each stage that returned has returned, in order
    result,     \* outcome of Start: "none" while running, "nil", an error, "panic"
    cmds,       \* the external commands issued so far, in order
    exits,      \* the exit code each of them returned, in the same order
    r,          \* exit code of the last ExecCmd
    out,        \* captured stdout of the last ExecCmd
    err_,       \* execution error of the last ExecCmd
    xfsUUID,    \* changeXFS's local uuid_ (uuid.New())
    devUUID,    \* the device's on-disk UUID
    devMounted  \* how the device is mounted: "no", "nouuid", "plain"

vars == <<args_, fs, caller_, uuid_, pc, err, stages, rets, result, cmds,
          exits, r, out, err_, xfsUUID, devUUID, devMounted>>

-----------------------------------------------------------------------------
\* Bounds of the model.

\* Probe (file -sL) outputs are concatenations of at most this many fragments.
MaxProbeFrags == 2
\* blkid outputs are concatenations of at most this many fragments.
MaxIdFrags == 3
\* Mount listings are concatenations of at most this many fragments.
MaxListFrags == 3

-----------------------------------------------------------------------------
\* Strings.

RECURSIVE Concats(_, _)
Concats(F, n) ==
    IF n = 0 THEN {<<>>}
    ELSE LET P == Concats(F, n - 1) IN P \cup {p \o f : p \in P, f \in F}

UpperToLower ==
    [c \in {"A","B","C","D","E","F","G","H","I","J","K","L","M",
            "N","O","P","Q","R","S","T","U","V","W","X","Y","Z"} |->
        CASE c = "A" -> "a" [] c = "B" -> "b" [] c = "C" -> "c" [] c = "D" -> "d"
          [] c = "E" -> "e" [] c = "F" -> "f" [] c = "G" -> "g" [] c = "H" -> "h"
          [] c = "I" -> "i" [] c = "J" -> "j" [] c = "K" -> "k" [] c = "L" -> "l"
          [] c = "M" -> "m" [] c = "N" -> "n" [] c = "O" -> "o" [] c = "P" -> "p"
          [] c = "Q" -> "q" [] c = "R" -> "r" [] c = "S" -> "s" [] c = "T" -> "t"
          [] c = "U" -> "u" [] c = "V" -> "v" [] c = "W" -> "w" [] c = "X" -> "x"
          [] c = "Y" -> "y" [] c = "Z" -> "z"]

\* strings.ToLower
ToLower(s) ==
    [i \in DOMAIN s |-> IF s[i] \in DOMAIN UpperToLower THEN UpperToLower[s[i]] ELSE s[i]]

\* strings.Contains
Contains(s, sub) ==
    \E i \in 0..(Len(s) - Len(sub)) : SubSeq(s, i + 1, i + Len(sub)) = sub

\* strings.HasPrefix
HasPrefix(s, p) ==
    Len(s) >= Len(p) /\ SubSeq(s, 1, Len(p)) = p

-----------------------------------------------------------------------------
\* Constants of the program.

NoStr == <<>>

FsXFS_ == <<"x","f","s">>
FsExt2 == <<"e","x","t","2">>
FsExt3 == <<"e","x","t","3">>
FsExt4 == <<"e","x","t","4">>
FsNTFs == <<"n","t","f","s">>

CMount    == "mount"
CUMount   == "umount"
CNTFs3g   == "ntfs-3g"
CTune2FS  == "tune2fs"
CBlkID    == "blkid"
CFile     == "file"
CXFSAdmin == "xfs_admin"

Errors == {"ErrUnsFs", "ErrUnKFs", "ErrDevUUID", "ErrGenUUID", "ErrQueryUUID",
           "ErrUMount", "ErrMount"}

\* The order in which bindFS tries the types.
FsOrder == <<FsExt2, FsExt3, FsExt4, FsXFS_, FsNTFs>>

\* The order in which Start calls the stages.
StageOrder == <<"BindArgs", "ChangeDevUUID", "MountDevice", "Check">>

-----------------------------------------------------------------------------
\* The environment: what the external commands can print.

ProbeFrags ==
    { FsExt2, <<"E","X","T","3">>, FsExt4, <<"X","F","S">>, FsNTFs,
      <<"e","x","t">>, <<"2">>, <<"f","a","t">>, <<" ">> }

IdFrags ==
    { <<"U","U","I","D","=","\"">>, <<"a","b">>, <<"\"">>, <<"\n">> }

ListFrags ==
    { <<"/","d">>, <<"/","m">>, <<" ">>, <<"/","x">> }

ProbeOutputs == Concats(ProbeFrags, MaxProbeFrags)
IdOutputs    == Concats(IdFrags, MaxIdFrags)
ListOutputs  == Concats(ListFrags, MaxListFrags)
NoOutputs    == {NoStr}

Devs  == { <<"/","d">> }
Paths == { <<"/","m">> }

OldUUID  == <<"o","l","d">>
NewUUIDs == { <<"n","1">>, <<"n","2">> }

-----------------------------------------------------------------------------
\* ExecCmd: run one external command and return (exit code, stdout, error).
\* A command that ran returns its exit code (0, or nonzero: 1) with a nil
\* error; a command that could not be launched returns exit -1, no output and
\* a non-nil error.
ExecCmd(outputs) ==
    {[r |-> 0, out |-> o, err |-> "nil"] : o \in outputs}
    \cup {[r |-> 1, out |-> o, err |-> "nil"] : o \in outputs}
    \cup {[r |-> -1, out |-> NoStr, err |-> "ErrExec"]}

\* The command line after strings.Fields: tool, options, arguments.
Cmd(c, o, a) == [c |-> c, o |-> o, a |-> a]

-----------------------------------------------------------------------------
\* Pure functions of the program.

\* GetCallerByFS answering mount for any value that is not ntfs.
GetCallerByFSOpen(f) ==
    IF f = FsNTFs THEN CNTFs3g ELSE CMount

\* GetCallerByFS with xfs in the case of ntfs.
GetCallerByFSXfsAsNTFs(f) ==
    IF f \in {FsExt2, FsExt3, FsExt4} THEN CMount
    ELSE IF f \in {FsXFS_, FsNTFs} THEN CNTFs3g
    ELSE "panic"

\* GetCallerByFS: the mount tool of a filesystem type, "panic" for any other value.
GetCallerByFS(f) ==
    IF f \in {FsExt2, FsExt3, FsExt4, FsXFS_} THEN CMount
    ELSE IF f = FsNTFs THEN CNTFs3g
    ELSE "panic"

\* Mount invoking the generic tool for every type.
MountToolGeneric(f) == CMount

\* The tool Mount invokes (__c).
MountTool(f) == IF f = FsNTFs THEN CNTFs3g ELSE CMount

\* The loop of bindFS keeping the last type that matches instead of the first.
FirstMatchLast(low) ==
    LET hits == {i \in DOMAIN FsOrder : Contains(low, FsOrder[i])}
    IN  IF hits = {} THEN NoStr
        ELSE FsOrder[CHOOSE i \in hits : \A j \in hits : i >= j]

\* The loop of bindFS over the lower-cased output: the first type of FsOrder
\* that the output contains, NoStr when it contains none.
FirstMatch(low) ==
    LET hits == {i \in DOMAIN FsOrder : Contains(low, FsOrder[i])}
    IN  IF hits = {} THEN NoStr
        ELSE FsOrder[CHOOSE i \in hits : \A j \in hits : i <= j]

\* bindFS comparing the output as printed, without lower-casing it.
bindFSNoLower(rr, o, e, f) ==
    IF rr # 0 THEN [fs |-> f, err |-> e]
    ELSE IF FirstMatch(o) # NoStr THEN [fs |-> FirstMatch(o), err |-> "nil"]
    ELSE [fs |-> f, err |-> "ErrUnKFs"]

\* bindFS returning success when no type matched.
bindFSNoUnknown(rr, o, e, f) ==
    IF rr # 0 THEN [fs |-> f, err |-> e]
    ELSE IF FirstMatch(ToLower(o)) # NoStr
         THEN [fs |-> FirstMatch(ToLower(o)), err |-> "nil"]
    ELSE [fs |-> f, err |-> "nil"]

\* bindFS on the probe's result (rr, o, e) with the session's type f:
\* the type the session holds afterwards and the error returned.
bindFS(rr, o, e, f) ==
    LET low == ToLower(o)
    IN  IF rr # 0 THEN [fs |-> f, err |-> e]
        ELSE IF FirstMatch(low) # NoStr THEN [fs |-> FirstMatch(low), err |-> "nil"]
        ELSE [fs |-> f, err |-> "ErrUnKFs"]

\* The regular expression uuid="(?P<uuid>.*?)" of QueryDeviceUUID.
UUIDKey == <<"u","u","i","d","=","\"">>

\* Position of the quote closing a match that starts at i: the first quote
\* after the key, provided no newline stands before it ('.' excludes "\n").
\* 0 when the expression does not match at i.
CloseOf(s, i) ==
    LET from   == i + Len(UUIDKey)
        quotes == {j \in from..Len(s) : s[j] = "\""}
        first  == CHOOSE j \in quotes : \A k \in quotes : j <= k
    IN  IF from - 1 > Len(s) THEN 0
        ELSE IF SubSeq(s, i, from - 1) # UUIDKey \/ quotes = {} THEN 0
        ELSE IF \E k \in from..(first - 1) : s[k] = "\n" THEN 0
        ELSE first

\* FindStringSubmatch: <<whole match, group 1>> of the leftmost match, <<>> if none.
FindStringSubmatch(s) ==
    LET starts == {i \in 1..Len(s) : CloseOf(s, i) # 0}
        i0     == CHOOSE i \in starts : \A k \in starts : i <= k
    IN  IF starts = {} THEN <<>>
        ELSE << SubSeq(s, i0, CloseOf(s, i0)),
                SubSeq(s, i0 + Len(UUIDKey), CloseOf(s, i0) - 1) >>

\* QueryDeviceUUID on blkid's result (rr, o): the UUID and the error returned.
QueryDeviceUUID(rr, o) ==
    LET us == FindStringSubmatch(ToLower(o))
    IN  IF rr # 0 THEN [uuid |-> NoStr, err |-> "ErrDevUUID"]
        ELSE IF Len(us) >= 2 THEN [uuid |-> us[2], err |-> "nil"]
        ELSE [uuid |-> NoStr, err |-> "ErrDevUUID"]

\* IsMount on the mount listing's result (rr, o) for path p:
\* "panic" when the listing failed, else whether the listing contains "p ".
IsMount(rr, o, p) ==
    IF rr # 0 THEN "panic"
    ELSE IF Contains(o, p \o <<" ">>) THEN "true"
    ELSE "false"

\* UMount ignoring the exit code.
UMountIgnored(rr) == "nil"

\* UMount: the error for umount's exit code.
UMount(rr) == IF rr # 0 THEN "ErrUMount" ELSE "nil"

\* Mount ignoring the exit code.
MountIgnored(rr) == "nil"

\* Mount: the error for the mount tool's exit code.
Mount(rr) == IF rr # 0 THEN "ErrMount" ELSE "nil"

\* GenExtDevUUID ignoring the exit code.
GenExtDevUUIDIgnored(rr) == "nil"

\* GenExtDevUUID: the error for tune2fs's exit code.
GenExtDevUUID(rr) == IF rr # 0 THEN "ErrGenUUID" ELSE "nil"

\* GenXFSDevUUID: the error for xfs_admin's exit code.
GenXFSDevUUID(rr) == IF rr # 0 THEN "ErrGenUUID" ELSE "nil"

\* changeEXT: the error it returns when QueryDeviceUUID returned qe.
changeEXTQuery(qe) == IF qe # "nil" THEN "ErrQueryUUID" ELSE "nil"

\* Check: the error it returns when the second IsMount returned m.
CheckResult(m) == IF m = "true" THEN "nil" ELSE "ErrMount"

\* Start going on to the next stage whatever the last one returned.
StartStepNoHalt(k, e) ==
    IF k = Len(StageOrder) THEN "return" ELSE StageOrder[k + 1]

\* Start not checking what ChangeDevUUID returned.
StartStepIgnoreUUIDErr(k, e) ==
    IF k > 0 /\ k # 2 /\ e # "nil" THEN "return"
    ELSE IF k = Len(StageOrder) THEN "return"
    ELSE StageOrder[k + 1]

\* Start after k stages have been begun and the last one returned e:
\* the stage to begin next, or "return".
StartStep(k, e) ==
    IF k > 0 /\ e # "nil" THEN "return"
    ELSE IF k = Len(StageOrder) THEN "return"
    ELSE StageOrder[k + 1]

\* Start returning nil whatever err holds.
StartReturnNil(e) == "nil"

\* What Start returns when it returns with err = e.
StartReturn(e) == e

\* Where a stage's code begins.
StageEntry(s) ==
    CASE s = "BindArgs"      -> "bindFS"
      [] s = "ChangeDevUUID" -> "ChangeDevUUID"
      [] s = "MountDevice"   -> "MountDevice"
      [] s = "Check"         -> "IsMountDev"

\* ChangeDevUUID sending ntfs to the ext strategy.
StrategyNTFsAsExt(f) ==
    IF HasPrefix(f, <<"e","x","t">>) \/ f = FsNTFs THEN "changeEXT"
    ELSE IF f = FsXFS_ THEN "changeXFS"
    ELSE "ErrUnsFs"

\* ChangeDevUUID's dispatch on the type: the strategy, or "ErrUnsFs".
Strategy(f) ==
    IF HasPrefix(f, <<"e","x","t">>) THEN "changeEXT"
    ELSE IF f = FsNTFs THEN "changeNTFs"
    ELSE IF f = FsXFS_ THEN "changeXFS"
    ELSE "ErrUnsFs"

-----------------------------------------------------------------------------
\* The run.

Init ==
    /\ args_ \in [dev : Devs, path_ : Paths]
    /\ fs = NoStr
    /\ caller_ = ""
    /\ uuid_ = NoStr
    /\ pc = "Start"
    /\ err = "nil"
    /\ stages = <<>>
    /\ rets = <<>>
    /\ result = "none"
    /\ cmds = <<>>
    /\ exits = <<>>
    /\ r = 0
    /\ out = NoStr
    /\ err_ = "nil"
    /\ xfsUUID = NoStr
    /\ devUUID = OldUUID
    /\ devMounted = "no"

\* One ExecCmd call: the command is issued and its result res is received.
Exec(cmd, res) ==
    /\ cmds' = Append(cmds, cmd)
    /\ exits' = Append(exits, res.r)
    /\ r' = res.r
    /\ out' = res.out
    /\ err_' = res.err

\* The current stage returns e to Start.
Return(e) ==
    /\ err' = e
    /\ rets' = Append(rets, e)
    /\ pc' = "Start"

\* The run ends in a panic.
Panic ==
    /\ result' = "panic"
    /\ pc' = "done"

\* Start: begin the next stage, or return.
Start ==
    /\ pc = "Start"
    /\ LET step == StartStep(Len(stages), err)
       IN  IF step = "return"
           THEN /\ result' = StartReturn(err)
                /\ pc' = "done"
                /\ UNCHANGED stages
           ELSE /\ stages' = Append(stages, step)
                /\ pc' = StageEntry(step)
                /\ UNCHANGED result
    /\ UNCHANGED <<args_, fs, caller_, uuid_, err, rets, cmds, exits, r, out, err_,
                   xfsUUID, devUUID, devMounted>>

\* BindArgs, first half: bindFS probes the device with file -sL.
BindFS ==
    /\ pc = "bindFS"
    /\ \E res \in ExecCmd(ProbeOutputs) :
         LET b == bindFS(res.r, res.out, res.err, fs)
         IN  /\ Exec(Cmd(CFile, "-sL", <<args_.dev>>), res)
             /\ fs' = b.fs
             /\ IF b.err # "nil"
                THEN Return(b.err)
                ELSE /\ pc' = "bindCaller"
                     /\ UNCHANGED <<err, rets>>
    /\ UNCHANGED <<args_, caller_, uuid_, stages, result, xfsUUID, devUUID, devMounted>>

\* BindArgs, second half: bindCaller stores the tool of the type, or panics.
BindCaller ==
    /\ pc = "bindCaller"
    /\ IF GetCallerByFS(fs) = "panic"
       THEN /\ Panic
            /\ UNCHANGED <<caller_, err, rets>>
       ELSE /\ caller_' = GetCallerByFS(fs)
            /\ Return("nil")
            /\ UNCHANGED result
    /\ UNCHANGED <<args_, fs, uuid_, stages, cmds, exits, r, out, err_, xfsUUID,
                   devUUID, devMounted>>

\* ChangeDevUUID: dispatch on the type.
ChangeDevUUID ==
    /\ pc = "ChangeDevUUID"
    /\ IF Strategy(fs) = "ErrUnsFs"
       THEN Return("ErrUnsFs")
       ELSE /\ pc' = Strategy(fs)
            /\ UNCHANGED <<err, rets>>
    /\ UNCHANGED <<args_, fs, caller_, uuid_, stages, result, cmds, exits, r, out, err_,
                   xfsUUID, devUUID, devMounted>>

\* changeEXT, first half: GenExtDevUUID runs tune2fs -U random; when it
\* exits 0 the device carries a new random UUID.
ChangeEXTGen ==
    /\ pc = "changeEXT"
    /\ \E res \in ExecCmd(NoOutputs), nu \in NewUUIDs :
         /\ Exec(Cmd(CTune2FS, "-U random", <<args_.dev>>), res)
         /\ devUUID' = IF res.r = 0 THEN nu ELSE devUUID
         /\ IF GenExtDevUUID(res.r) # "nil"
            THEN Return(GenExtDevUUID(res.r))
            ELSE /\ pc' = "QueryDeviceUUID"
                 /\ UNCHANGED <<err, rets>>
    /\ UNCHANGED <<args_, fs, caller_, uuid_, stages, result, xfsUUID, devMounted>>

\* changeEXT, second half: QueryDeviceUUID runs blkid and the result is recorded.
ChangeEXTQuery ==
    /\ pc = "QueryDeviceUUID"
    /\ \E res \in ExecCmd(IdOutputs) :
         LET q == QueryDeviceUUID(res.r, res.out)
         IN  /\ Exec(Cmd(CBlkID, "| grep", <<args_.dev>>), res)
             /\ uuid_' = q.uuid
             /\ Return(changeEXTQuery(q.err))
    /\ UNCHANGED <<args_, fs, caller_, stages, result, xfsUUID, devUUID, devMounted>>

\* changeXFS, first step: draw the new UUID, then the registration mount.
ChangeXFSMount ==
    /\ pc = "changeXFS"
    /\ \E res \in ExecCmd(NoOutputs), nu \in NewUUIDs :
         /\ xfsUUID' = nu
         /\ Exec(Cmd(MountTool(fs), "-o rw,nouuid", <<args_.dev, args_.path_>>), res)
         /\ devMounted' = IF res.r = 0 THEN "nouuid" ELSE devMounted
         /\ IF Mount(res.r) # "nil"
            THEN Return(Mount(res.r))
            ELSE /\ pc' = "UMount"
                 /\ UNCHANGED <<err, rets>>
    /\ UNCHANGED <<args_, fs, caller_, uuid_, stages, result, devUUID>>

\* changeXFS, second step: unmount the device.
ChangeXFSUMount ==
    /\ pc = "UMount"
    /\ \E res \in ExecCmd(NoOutputs) :
         /\ Exec(Cmd(CUMount, "", <<args_.dev>>), res)
         /\ devMounted' = IF res.r = 0 THEN "no" ELSE devMounted
         /\ IF UMount(res.r) # "nil"
            THEN Return(UMount(res.r))
            ELSE /\ pc' = "GenXFSDevUUID"
                 /\ UNCHANGED <<err, rets>>
    /\ UNCHANGED <<args_, fs, caller_, uuid_, stages, result, xfsUUID, devUUID>>

\* changeXFS, third step: GenXFSDevUUID runs xfs_admin -U with the new UUID.
ChangeXFSGen ==
    /\ pc = "GenXFSDevUUID"
    /\ \E res \in ExecCmd(NoOutputs) :
         /\ Exec(Cmd(CXFSAdmin, "-U", <<xfsUUID, args_.dev>>), res)
         /\ devUUID' = IF res.r = 0 THEN xfsUUID ELSE devUUID
         /\ Return(GenXFSDevUUID(res.r))
    /\ UNCHANGED <<args_, fs, caller_, uuid_, stages, result, xfsUUID, devMounted>>

\* changeNTFs: nothing is done.
ChangeNTFs ==
    /\ pc = "changeNTFs"
    /\ Return("nil")
    /\ UNCHANGED <<args_, fs, caller_, uuid_, stages, result, cmds, exits, r, out, err_,
                   xfsUUID, devUUID, devMounted>>

\* MountDevice: the plain mount.
MountDevice ==
    /\ pc = "MountDevice"
    /\ \E res \in ExecCmd(NoOutputs) :
         /\ Exec(Cmd(MountTool(fs), "", <<args_.dev, args_.path_>>), res)
         /\ devMounted' = IF res.r = 0 THEN "plain" ELSE devMounted
         /\ Return(Mount(res.r))
    /\ UNCHANGED <<args_, fs, caller_, uuid_, stages, result, xfsUUID, devUUID>>

\* Check, first operand: IsMount(dev) lists the mounts.
CheckDev ==
    /\ pc = "IsMountDev"
    /\ \E res \in ExecCmd(ListOutputs) :
         LET m == IsMount(res.r, res.out, args_.dev)
         IN  /\ Exec(Cmd(CMount, "", <<>>), res)
             /\ IF m = "panic"
                THEN /\ Panic
                     /\ UNCHANGED <<err, rets>>
                ELSE IF m = "true"
                THEN /\ Return("nil")
                     /\ UNCHANGED result
                ELSE /\ pc' = "IsMountPath"
                     /\ UNCHANGED <<err, rets, result>>
    /\ UNCHANGED <<args_, fs, caller_, uuid_, stages, xfsUUID, devUUID, devMounted>>

\* Check, second operand: IsMount(path_) lists the mounts again.
CheckPath ==
    /\ pc = "IsMountPath"
    /\ \E res \in ExecCmd(ListOutputs) :
         LET m == IsMount(res.r, res.out, args_.path_)
         IN  /\ Exec(Cmd(CMount, "", <<>>), res)
             /\ IF m = "panic"
                THEN /\ Panic
                     /\ UNCHANGED <<err, rets>>
                ELSE /\ Return(CheckResult(m))
                     /\ UNCHANGED result
    /\ UNCHANGED <<args_, fs, caller_, uuid_, stages, xfsUUID, devUUID, devMounted>>

Next ==
    \/ Start
    \/ BindFS
    \/ BindCaller
    \/ ChangeDevUUID
    \/ ChangeEXTGen
    \/ ChangeEXTQuery
    \/ ChangeXFSMount
    \/ ChangeXFSUMount
    \/ ChangeXFSGen
    \/ ChangeNTFs
    \/ MountDevice
    \/ CheckDev
    \/ CheckPath

Spec == Init /\ [][Next]_vars

-----------------------------------------------------------------------------
\* Vocabulary of the properties.

FsSet == {FsExt2, FsExt3, FsExt4, FsXFS_, FsNTFs}
ExtSet == {FsExt2, FsExt3, FsExt4}

\* The stage (index into StageOrder) whose code issues command c.
CmdStage(c) ==
    IF c.c = CFile THEN 1
    ELSE IF c.c \in {CTune2FS, CBlkID, CUMount, CXFSAdmin} THEN 2
    ELSE IF c.o = "-o rw,nouuid" THEN 2
    ELSE IF c.a # <<>> THEN 3
    ELSE 4

\* c is the plain mount of MountDevice.
IsPlainMount(c) == c.c \in {CMount, CNTFs3g} /\ c.o = "" /\ c.a # <<>>

\* Stage k has returned the error e, nothing ran after it, and Start returns e.
FailsWith(k, e) ==
    /\ Len(rets) = k
    /\ rets[k] = e
    /\ Len(stages) = k
    /\ pc \in {"Start", "done"}
    /\ (pc = "done" => result = e)

\* Characters a and b are equal up to case.
EqFold(a, b) ==
    \/ a = b
    \/ a \in DOMAIN UpperToLower /\ UpperToLower[a] = b
    \/ b \in DOMAIN UpperToLower /\ UpperToLower[b] = a

\* Token t occurs in s, compared case-insensitively.
OccursFold(s, t) ==
    \E i \in 0..(Len(s) - Len(t)) : \A k \in 1..Len(t) : EqFold(s[i + k], t[k])

\* The known tokens occurring in s.
TokensIn(s) == {t \in FsSet : OccursFold(s, t)}

\* s holds a uuid="..." token on one line (compared case-insensitively).
Parsable(s) ==
    \E i \in 1..Len(s), j \in 1..Len(s) :
        /\ j >= i + Len(UUIDKey)
        /\ \A k \in 1..Len(UUIDKey) : EqFold(s[i + k - 1], UUIDKey[k])
        /\ s[j] = "\""
        /\ \A k \in (i + Len(UUIDKey))..(j - 1) : s[k] # "\n"

\* The probe is the only command issued so far: r, out, err_ are its result.
ProbeOnly == Len(cmds) = 1 /\ cmds[1].c = CFile

-----------------------------------------------------------------------------
\* C1: the stages Start has begun are always the first stages of BindArgs,
\* ChangeDevUUID, MountDevice, Check, in that order; every stage but the
\* current one has returned, and returned success; Start returns success
\* only after all four.
C1_StageOrder ==
    /\ Len(stages) <= Len(StageOrder)
    /\ \A i \in DOMAIN stages : stages[i] = StageOrder[i]
    /\ Len(rets) \in {Len(stages) - 1, Len(stages)}
    /\ \A i \in DOMAIN stages : i > 1 => rets[i - 1] = "nil"
    /\ (result = "nil" => stages = StageOrder /\ Len(rets) = Len(StageOrder))

C1_Witness == result = "nil" /\ stages = StageOrder /\ fs = FsXFS_

\* C2: once a stage has returned an error, it is the last stage begun, no
\* command of a later stage is in the log, and Start returns that very error.
C2_FailureReturnedVerbatim ==
    \A i \in DOMAIN rets : rets[i] # "nil" =>
        /\ FailsWith(i, rets[i])
        /\ \A j \in DOMAIN cmds : CmdStage(cmds[j]) <= i

C2_Witness ==
    /\ pc = "done"
    /\ Len(rets) = 2
    /\ rets[2] = "ErrUMount"
    /\ result = "ErrUMount"

\* C3: no run of Start ends in a panic.
C3_NeverPanics == result # "panic"

\* C4: a UUID-changing command, a mount with arguments or an umount is in the
\* log only when the filesystem type is one of the five supported types, and
\* the plain mount only when ChangeDevUUID has returned success.
C4_ResolvedBeforeCommands ==
    \A i \in DOMAIN cmds :
        /\ ( \/ cmds[i].c \in {CTune2FS, CXFSAdmin, CUMount}
             \/ cmds[i].c \in {CMount, CNTFs3g} /\ cmds[i].a # <<>> )
           => fs \in FsSet
        /\ IsPlainMount(cmds[i])
           => /\ Len(rets) >= 2
              /\ stages[2] = "ChangeDevUUID"
              /\ rets[2] = "nil"

C4_Witness ==
    /\ fs = FsExt4
    /\ \E i \in DOMAIN cmds : cmds[i].c = CTune2FS
    /\ \E i \in DOMAIN cmds : IsPlainMount(cmds[i])

\* C5: after a probe that exited 0, an output with exactly one known token
\* (case-insensitively) has resolved the type to that token and bindFS did not
\* fail; an output with none left the type unresolved and BindArgs returned
\* ErrUnKFs.
C5_Detection ==
    (ProbeOnly /\ r = 0) =>
        /\ Cardinality(TokensIn(out)) = 1
           => fs \in TokensIn(out) /\ (rets # <<>> => rets[1] = "nil")
        /\ TokensIn(out) = {}
           => fs = NoStr /\ rets = <<"ErrUnKFs">>

C5_Witness ==
    /\ ProbeOnly
    /\ r = 0
    /\ out = <<"E","X","T","3">>
    /\ fs = FsExt3
    /\ rets = <<"nil">>

\* C6: after a probe that exited nonzero the type is unresolved, BindArgs has
\* returned a non-nil error and Start returns it, with no further command.
C6_ProbeFailureSurfaced ==
    (ProbeOnly /\ r # 0) =>
        /\ fs = NoStr
        /\ Len(rets) = 1
        /\ rets[1] # "nil"
        /\ FailsWith(1, rets[1])

\* C7: after a probe that exited 0 with no known token in its output, BindArgs
\* has returned ErrUnKFs, Start returns it and the run issues nothing else.
C7_UnknownStopsRun ==
    /\ (ProbeOnly /\ r = 0 /\ TokensIn(out) = {}) => FailsWith(1, "ErrUnKFs")
    /\ (result = "ErrUnKFs" => ProbeOnly)

C7_Witness ==
    /\ pc = "done"
    /\ result = "ErrUnKFs"
    /\ ProbeOnly
    /\ out = <<"f","a","t">>

\* C8: for xfs the commands after the probe are the nouuid mount, the umount
\* of the device and xfs_admin, in this order, each issued only after the
\* ones before it exited 0; a failing mount, umount, xfs_admin makes the
\* strategy and Start fail with ErrMount, ErrUMount, ErrGenUUID; in the first
\* two cases the device keeps its UUID.
C8_XFSStrategy ==
    fs = FsXFS_ =>
        /\ Len(cmds) >= 2 =>
             cmds[2] = Cmd(CMount, "-o rw,nouuid", <<args_.dev, args_.path_>>)
        /\ Len(cmds) >= 3 =>
             cmds[3] = Cmd(CUMount, "", <<args_.dev>>) /\ exits[2] = 0
        /\ Len(cmds) >= 4 =>
             /\ cmds[4] = Cmd(CXFSAdmin, "-U", <<xfsUUID, args_.dev>>)
             /\ exits[2] = 0
             /\ exits[3] = 0
        /\ \A i \in DOMAIN cmds : cmds[i].c = CXFSAdmin => i = 4
        /\ (Len(cmds) >= 2 /\ exits[2] # 0) =>
             FailsWith(2, "ErrMount") /\ devUUID = OldUUID
        /\ (Len(cmds) >= 3 /\ exits[3] # 0) =>
             FailsWith(2, "ErrUMount") /\ devUUID = OldUUID
        /\ (Len(cmds) >= 4 /\ exits[4] # 0) => FailsWith(2, "ErrGenUUID")

C8_Witness ==
    /\ fs = FsXFS_
    /\ Len(cmds) >= 4
    /\ cmds[4].c = CXFSAdmin
    /\ exits[4] = 0
    /\ rets = <<"nil", "nil">>
    /\ devUUID = xfsUUID

\* C9: for ext2, ext3, ext4 the command after the probe is tune2fs; blkid is
\* issued only as the next one and only after tune2fs exited 0; a failing
\* tune2fs makes the strategy fail with ErrGenUUID, and a blkid that exits
\* nonzero or prints no parsable UUID makes it fail with ErrQueryUUID.
C9_ExtStrategy ==
    fs \in ExtSet =>
        /\ Len(cmds) >= 2 => cmds[2] = Cmd(CTune2FS, "-U random", <<args_.dev>>)
        /\ \A i \in DOMAIN cmds : cmds[i].c = CBlkID => i = 3 /\ exits[2] = 0
        /\ (Len(cmds) >= 2 /\ exits[2] # 0) =>
             FailsWith(2, "ErrGenUUID") /\ Len(cmds) = 2
        /\ (Len(cmds) >= 3 /\ exits[3] # 0) => FailsWith(2, "ErrQueryUUID")
        /\ (Len(cmds) = 3 /\ exits[3] = 0 /\ ~Parsable(out)) =>
             FailsWith(2, "ErrQueryUUID")

C9_Witness ==
    /\ fs = FsExt2
    /\ Len(cmds) = 3
    /\ cmds[3].c = CBlkID
    /\ exits[3] = 0
    /\ ~Parsable(out)
    /\ result = "ErrQueryUUID"

\* C10: whenever the ext strategy has returned success, the UUID recorded in
\* the session is not empty.
C10_UUIDNonEmpty ==
    (fs \in ExtSet /\ Len(rets) >= 2 /\ rets[2] = "nil") => uuid_ # NoStr

-----------------------------------------------------------------------------
\* Vocabulary of the Check stage.

\* The mount listings (mount without arguments) issued so far.
Listings == {i \in DOMAIN cmds : cmds[i].c = CMount /\ cmds[i].a = <<>>}

\* Listing o shows p followed by a space.
Reports(o, p) == Contains(o, p \o <<" ">>)

\* Listing o shows p as a whole token: preceded by the start of the text or a
\* separator, and followed by a space.
WholeToken(o, p) ==
    \E i \in 0..(Len(o) - Len(p) - 1) :
        /\ SubSeq(o, i + 1, i + Len(p)) = p
        /\ o[i + Len(p) + 1] = " "
        /\ (i = 0 \/ o[i] \in {" ", "\n"})

\* The Check stage is over: it returned or the run ended inside it.
CheckOver == Len(stages) = 4 /\ pc \in {"Start", "done"}

\* C11: when Check is over after one listing, that listing showed the device
\* and Check returned success; after two listings Check returned success if
\* the second showed the mount path and ErrMount, which Start returns, if not.
C11_CheckIffListed ==
    CheckOver =>
        /\ Cardinality(Listings) = 1 =>
             /\ Reports(out, args_.dev)
             /\ Len(rets) = 4
             /\ rets[4] = "nil"
        /\ Cardinality(Listings) = 2 =>
             /\ Len(rets) = 4
             /\ (Reports(out, args_.path_) => rets[4] = "nil")
             /\ (~Reports(out, args_.path_) => FailsWith(4, "ErrMount"))

\* C12: IsMount answers true only for a path the listing shows as a whole
\* token followed by a separator.
C12_WholeTokenOnly ==
    (CheckOver /\ r = 0 /\ Len(rets) = 4 /\ rets[4] = "nil") =>
        /\ Cardinality(Listings) = 1 => WholeToken(out, args_.dev)
        /\ Cardinality(Listings) = 2 => WholeToken(out, args_.path_)

-----------------------------------------------------------------------------
\* Values of the type field that are none of the five supported types.
OtherFs == {NoStr, <<"f","a","t">>, <<"e","x","t">>, <<"j","f","s">>, <<"X","F","S">>}

\* C13: GetCallerByFS yields mount for ext2, ext3, ext4 and xfs, ntfs-3g for
\* ntfs and panics for any other value; once BindArgs has returned success
\* the session holds a supported type and the tool of that type, and a run
\* that panics in BindArgs has stored no tool.
C13_CallerMapping ==
    /\ \A f \in {FsExt2, FsExt3, FsExt4, FsXFS_} : GetCallerByFS(f) = CMount
    /\ GetCallerByFS(FsNTFs) = CNTFs3g
    /\ \A f \in OtherFs : GetCallerByFS(f) = "panic"
    /\ (Len(rets) >= 1 /\ rets[1] = "nil") =>
         /\ fs \in FsSet
         /\ caller_ = IF fs = FsNTFs THEN CNTFs3g ELSE CMount
    /\ (result = "panic" /\ Len(stages) = 1) => fs \notin FsSet /\ caller_ = ""
    /\ caller_ \in {"", CMount, CNTFs3g}

C13_Witness ==
    /\ Len(rets) >= 1
    /\ rets[1] = "nil"
    /\ fs = FsNTFs
    /\ caller_ = CNTFs3g

\* C14: for ntfs the stage ChangeDevUUID issues no command, returns success
\* and leaves the device's UUID as it was; the command after the probe is the
\* plain mount with ntfs-3g, and no run ends between the two.
C14_NTFSNoOp ==
    fs = FsNTFs =>
        /\ \A i \in DOMAIN cmds : CmdStage(cmds[i]) # 2
        /\ devUUID = OldUUID
        /\ uuid_ = NoStr
        /\ (Len(rets) >= 2 => rets[2] = "nil")
        /\ (Len(cmds) >= 2 =>
              cmds[2] = Cmd(CNTFs3g, "", <<args_.dev, args_.path_>>))
        /\ (pc = "done" /\ result # "panic" => Len(cmds) >= 2)

C14_Witness ==
    /\ fs = FsNTFs
    /\ rets = <<"nil", "nil", "nil">>
    /\ Len(cmds) = 2
    /\ cmds[2].c = CNTFs3g
    /\ exits[2] = 0

-----------------------------------------------------------------------------
\* The types whose strategy changes the device's UUID.
RegenSet == ExtSet \cup {FsXFS_}

\* C15: a plain mount that exited nonzero is the last command of the run,
\* MountDevice and Start fail with ErrMount, and a device whose UUID was
\* regenerated keeps the new UUID; tune2fs and xfs_admin are each issued at
\* most once in a run.
C15_NoRollbackNoRetry ==
    /\ \A i \in DOMAIN cmds : (IsPlainMount(cmds[i]) /\ exits[i] # 0) =>
         /\ i = Len(cmds)
         /\ FailsWith(3, "ErrMount")
         /\ (fs \in RegenSet => devUUID \in NewUUIDs)
         /\ (fs = FsXFS_ => devUUID = xfsUUID)
    /\ Cardinality({i \in DOMAIN cmds : cmds[i].c = CTune2FS}) <= 1
    /\ Cardinality({i \in DOMAIN cmds : cmds[i].c = CXFSAdmin}) <= 1
    /\ Cardinality({i \in DOMAIN cmds : IsPlainMount(cmds[i])}) <= 1

C15_Witness ==
    /\ pc = "done"
    /\ result = "ErrMount"
    /\ fs = FsXFS_
    /\ Len(cmds) = 5
    /\ IsPlainMount(cmds[5])
    /\ exits[5] # 0
    /\ devUUID = xfsUUID

\* C16 as claimed: no run ends with the device mounted with the nouuid option.
C16_NeverEndsNoUUID == pc = "done" => devMounted # "nouuid"

\* C16 as amended: a run ends with the device mounted with the nouuid option
\* only when the umount after the registration mount failed, and then Start
\* returns ErrUMount; after an umount that exited 0 no run ends with it.
C16_NoUUIDOnlyAfterFailedUMount ==
    /\ (pc = "done" /\ devMounted = "nouuid") =>
         /\ fs = FsXFS_
         /\ Len(cmds) = 3
         /\ exits[2] = 0
         /\ exits[3] # 0
         /\ result = "ErrUMount"
    /\ (fs = FsXFS_ /\ Len(cmds) >= 3 /\ exits[3] = 0) => devMounted # "nouuid"

C16_Witness ==
    /\ pc = "done"
    /\ fs = FsXFS_
    /\ Len(cmds) >= 3
    /\ exits[2] = 0
    /\ exits[3] = 0
    /\ devMounted = "no"
    /\ result = "ErrGenUUID"

-----------------------------------------------------------------------------
\* Priority of a type in detection: ext2, ext3, ext4, xfs, ntfs.
Rank(t) ==
    CASE t = FsExt2 -> 1
      [] t = FsExt3 -> 2
      [] t = FsExt4 -> 3
      [] t = FsXFS_ -> 4
      [] t = FsNTFs -> 5

\* C17: after a probe that exited 0 with at least one known token in its
\* output, the resolved type is the token of highest priority among those the
\* output contains (case-insensitively), however many it contains.
C17_FirstMatchPriority ==
    (ProbeOnly /\ r = 0 /\ TokensIn(out) # {}) =>
        /\ fs \in TokensIn(out)
        /\ \A t \in TokensIn(out) : Rank(fs) <= Rank(t)

C17_Witness ==
    /\ ProbeOnly
    /\ r = 0
    /\ out = FsNTFs \o FsExt4
    /\ fs = FsExt4

\* C18: after ChangeDevUUID returned success for xfs, the session's UUID is
\* the value passed to xfs_admin, which is the device's UUID; for ext2, ext3,
\* ext4 it is the UUID the query reported.
C18_SessionHoldsNewUUID ==
    (Len(rets) >= 2 /\ rets[2] = "nil") =>
        /\ fs = FsXFS_ => uuid_ = xfsUUID /\ uuid_ = devUUID
        /\ (fs \in ExtSet /\ Len(cmds) = 3) =>
             uuid_ = FindStringSubmatch(ToLower(out))[2]

-----------------------------------------------------------------------------
\* The most commands a run issues for type t.
MostCmds(t) ==
    IF t \in ExtSet THEN 6
    ELSE IF t = FsXFS_ THEN 7
    ELSE IF t = FsNTFs THEN 4
    ELSE 1

\* How far the run has come: every step of the run raises it.
Progress ==
    2 * (Len(cmds) + Len(stages) + Len(rets))
    + (IF pc \in {"changeEXT", "changeXFS", "changeNTFs"} THEN 1 ELSE 0)
    + (IF pc = "done" THEN 2 ELSE 0)

\* C19: as long as Start has not ended a next step is possible (given that
\* every external command returns), every step brings the run further and the
\* progress of a run is bounded, so every run ends; and at every moment the
\* number of commands issued is at most 6 for ext2, ext3, ext4, at most 7 for
\* xfs and at most 4 for ntfs (and 1, the probe, while the type is unresolved).
C19_TerminatesBounded ==
    /\ [](pc = "done" \/ ENABLED Next)
    /\ [][Progress' > Progress]_vars
    /\ [](Progress <= 2 * (MostCmds(fs) + 2 * Len(StageOrder)) + 2)
    /\ [](Len(cmds) <= MostCmds(fs))

C19_Witness ==
    /\ pc = "done"
    /\ fs = FsXFS_
    /\ Len(cmds) = 7

\* C20: every mount command with arguments in the log was issued with the
\* tool that bindCaller stored in the session.
C20_MountToolIsCaller ==
    \A i \in DOMAIN cmds :
        (cmds[i].c \in {CMount, CNTFs3g} /\ cmds[i].a # <<>>) =>
            /\ caller_ # ""
            /\ cmds[i].c = caller_

C20_Witness ==
    /\ fs = FsNTFs
    /\ caller_ = CNTFs3g
    /\ \E i \in DOMAIN cmds : cmds[i].c = CNTFs3g /\ cmds[i].a # <<>>

====
